---- MODULE Spec2Model ----
(***************************************************************************)
(* A model of scripts/dev/src2asciidoc.py, the generator of qutebrowser's  *)
(* asciidoc reference documentation:                                       *)
(*   - the block patcher _format_block and the file system it works on,    *)
(*   - generate_commands and the per-command documentation,                *)
(*   - the option rendering of regenerate_manpage (_format_action),        *)
(*   - the backend notice of the settings reference,                       *)
(*   - the usage string of a command (_get_cmd_syntax, UsageFormatter).    *)
(* Each part has its own specification over the shared variables; the      *)
(* variables of the other parts keep their initial values.                 *)
(***************************************************************************)
EXTENDS Naturals, Sequences, FiniteSets, TLC

VARIABLES
    \* ---- the block patcher (_format_block) and the two paths it touches
    target,       \* the file at `filename`: [exists, content]
    tmpfile,      \* the file at `tmpname` (tempfile.mkstemp)
    pc,           \* position in _format_block
    filename,     \* argument: the path of the file to change
    what,         \* argument `what`, upper-cased by the first statement
    data,         \* argument `data`: a list of strings
    infile,       \* the lines the `for line in infile` loop has not read yet
    found_start,
    found_end,
    exc,          \* the exception that is propagating / was raised
    before,       \* history: the target file when the current call began
    history,      \* history: the calls that have ended before the current one
    \* ---- generate_commands
    registry,     \* objects.commands: the commands in the order items() gives
    gc_pc,        \* position in generate_commands
    gc_i,         \* the command the classifying loop reads next
    normal_cmds,
    other_cmds,
    debug_cmds,
    gc_out,       \* what has been written to the commands file
    gc_exc,       \* the exception generate_commands ended with
    \* ---- _get_command_doc on one command
    cmd,
    doc_pc,
    doc_output,   \* the list `output`
    doc_exc,
    \* ---- _format_action on one argparse action
    action,
    fa_pc,
    args_string,  \* the local args_string
    fa_result,    \* the value returned
    \* ---- _generate_setting_backend_info on one option
    opt,
    sb_pc,
    sb_items,     \* the items of raw_backends the loop has not read yet
    sb_out,       \* what has been written to f
    sb_exc,
    \* ---- _get_cmd_syntax on the parser of one command
    parser,       \* cmd.parser: [prog, usage, formatter_class, actions]
    syn_pc,       \* position in _get_cmd_syntax and the calls below it
    old_fmt_class,
    old_option_strings,  \* of _format_actions_usage, by position of the action
    ret,          \* of _format_actions_usage
    usage,        \* the usage string, once there is one
    syn_exc,      \* the exception _get_cmd_syntax ended with
    parser0       \* history: the parser when the call began

patchVars == <<target, tmpfile, pc, filename, what, data, infile,
               found_start, found_end, exc, before, history>>

cmdsVars == <<registry, gc_pc, gc_i, normal_cmds, other_cmds, debug_cmds, gc_out,
              gc_exc>>

docVars == <<cmd, doc_pc, doc_output, doc_exc>>

actionVars == <<action, fa_pc, args_string, fa_result>>

settingVars == <<opt, sb_pc, sb_items, sb_out, sb_exc>>

syntaxVars == <<parser, syn_pc, old_fmt_class, old_option_strings, ret, usage,
                syn_exc, parser0>>

vars == <<patchVars, cmdsVars, docVars, actionVars, settingVars, syntaxVars>>

\* What the actions of one part leave alone.
notPatch == <<cmdsVars, docVars, actionVars, settingVars, syntaxVars>>
notCmds == <<patchVars, docVars, actionVars, settingVars, syntaxVars>>
notDoc == <<patchVars, cmdsVars, actionVars, settingVars, syntaxVars>>
notAction == <<patchVars, cmdsVars, docVars, settingVars, syntaxVars>>
notSetting == <<patchVars, cmdsVars, docVars, actionVars, syntaxVars>>
notSyntax == <<patchVars, cmdsVars, docVars, actionVars, settingVars>>

(***************************************************************************)
(* Text.  A text is a sequence of characters; a run of characters without  *)
(* white space (a word, a marker) is written as one element.               *)
(***************************************************************************)
NL == "\n"
SP == " "

\* str.strip() removes leading and trailing white space, the newline included.
IsSpace(c) == c \in {NL, SP}

RECURSIVE LStrip(_)
LStrip(s) == IF s # <<>> /\ IsSpace(Head(s)) THEN LStrip(Tail(s)) ELSE s

RECURSIVE RStrip(_)
RStrip(s) ==
    IF s # <<>> /\ IsSpace(s[Len(s)]) THEN RStrip(SubSeq(s, 1, Len(s) - 1)) ELSE s

Strip(s) == RStrip(LStrip(s))

\* The Python string a text stands for.
RECURSIVE Text(_)
Text(s) == IF s = <<>> THEN "" ELSE Head(s) \o Text(Tail(s))

\* ''.join(data)
RECURSIVE Join(_)
Join(strings) == IF strings = <<>> THEN <<>> ELSE Head(strings) \o Join(Tail(strings))

\* Index of the first newline of s, 0 when there is none.
RECURSIVE FirstNL(_, _)
FirstNL(s, i) ==
    IF i > Len(s) THEN 0 ELSE IF s[i] = NL THEN i ELSE FirstNL(s, i + 1)

\* Iterating a text file opened with newline='\n': the lines, each with its
\* terminator; the last one has none when the file does not end in a newline.
RECURSIVE SplitLines(_)
SplitLines(s) ==
    IF s = <<>> THEN <<>>
    ELSE LET n == FirstNL(s, 1)
         IN  IF n = 0 THEN <<s>>
             ELSE <<SubSeq(s, 1, n)>> \o SplitLines(SubSeq(s, n + 1, Len(s)))

\* str.upper() on the block names and the destinations in use.
Upper(w) ==
    CASE w = "options" -> "OPTIONS"
      [] w = "Options" -> "OPTIONS"
      [] w = "OPTIONS" -> "OPTIONS"
      [] w = "target" -> "TARGET"
      [] w = "basedir" -> "BASEDIR"
      [] OTHER -> w

\* '// QUTE_{}_START'.format(what) and '// QUTE_{}_END'.format(what.upper())
StartMarker(w) == "// QUTE_" \o w \o "_START"
EndMarker(w) == "// QUTE_" \o Upper(w) \o "_END"

(***************************************************************************)
(* Files and exceptions.                                                   *)
(***************************************************************************)
NoFile == [exists |-> FALSE, content |-> <<>>]
File(c) == [exists |-> TRUE, content |-> c]

NoExc == [type |-> "none", marker |-> "", file |-> "", op |-> ""]
\* Exception("Marker '<marker>' not found in '<file>'!")
MarkerError(m, f) == [type |-> "Exception", marker |-> m, file |-> f, op |-> ""]
\* An OSError raised by a file-system call.
OSError(o, f) == [type |-> "OSError", marker |-> "", file |-> f, op |-> o]

(***************************************************************************)
(* Bounds and the inputs drawn from them.                                  *)
(***************************************************************************)
MaxLines == 4

\* main() patches the man page.
TargetPath == "doc/qutebrowser.1.asciidoc"

BlockNames == {"options", "Options"}

\* The lines a target file is made of: the two markers of the block, a line
\* of plain text, and the start marker with white space around it.
LineKinds ==
    { <<"// QUTE_OPTIONS_START", NL>>,
      <<"// QUTE_OPTIONS_END", NL>>,
      <<"text", NL>>,
      <<SP, "// QUTE_OPTIONS_START", SP, NL>> }

RECURSIVE FilesOf(_)
FilesOf(n) ==
    IF n = 0 THEN { <<>> }
    ELSE LET shorter == FilesOf(n - 1)
         IN  shorter \cup { f \o l : f \in shorter, l \in LineKinds }

\* A file may lack the newline at its end.
Contents ==
    FilesOf(MaxLines)
        \cup { SubSeq(f, 1, Len(f) - 1) : f \in FilesOf(MaxLines) \ { <<>> } }

\* The values of `data`: nothing, one line, one string without a newline at
\* its end, and two lines of which the second is the end marker.
DataValues ==
    { <<>>,
      << <<"new", NL>> >>,
      << <<"new">> >>,
      << <<"new", NL>>, <<"// QUTE_OPTIONS_END", NL>> >> }

(***************************************************************************)
(* _format_block                                                           *)
(***************************************************************************)
\* LoopBody comparing the line without its terminator, not the stripped line.
LoopBodyExact(st, line, w, d) ==
    LET bare == IF line # <<>> /\ line[Len(line)] = NL
                THEN SubSeq(line, 1, Len(line) - 1) ELSE line
    IN  IF Text(bare) = StartMarker(w)
        THEN [temp |-> st.temp \o line \o Join(d),
              found_start |-> TRUE, found_end |-> st.found_end]
        ELSE IF Text(bare) = EndMarker(w)
        THEN [temp |-> st.temp \o line,
              found_start |-> st.found_start, found_end |-> TRUE]
        ELSE IF (~st.found_start) \/ st.found_end
        THEN [st EXCEPT !.temp = st.temp \o line]
        ELSE st

\* One iteration of `for line in infile` on the loop's state
\* [temp, found_start, found_end].
LoopBody(st, line, w, d) ==
    IF Text(Strip(line)) = StartMarker(w)
    THEN [temp |-> st.temp \o line \o Join(d),
          found_start |-> TRUE, found_end |-> st.found_end]
    ELSE IF Text(Strip(line)) = EndMarker(w)
    THEN [temp |-> st.temp \o line,
          found_start |-> st.found_start, found_end |-> TRUE]
    ELSE IF (~st.found_start) \/ st.found_end
    THEN [st EXCEPT !.temp = st.temp \o line]
    ELSE st

\* what = what.upper(); oshandle, tmpname = tempfile.mkstemp()
Enter(w, d) ==
    /\ filename' = TargetPath
    /\ what' = Upper(w)
    /\ data' = d
    /\ tmpfile' = File(<<>>)
    /\ before' = target
    /\ exc' = NoExc
    /\ infile' = <<>>
    /\ found_start' = FALSE
    /\ found_end' = FALSE
    /\ pc' = "open"
    /\ UNCHANGED target

Call ==
    /\ pc = "idle"
    /\ \E w \in BlockNames, d \in DataValues : Enter(w, d)
    /\ UNCHANGED history
    /\ UNCHANGED notPatch

\* A caller runs _format_block again on the same file and block.
CallAgain ==
    /\ pc = "done"
    /\ history = <<>>
    /\ \E d \in DataValues : Enter(what, d)
    /\ history' = Append(history,
                         [before |-> before, data |-> data, exc |-> exc,
                          after |-> target])
    /\ UNCHANGED notPatch

\* with _open_file(filename, mode='r') as infile, _open_file(oshandle, mode='w')
OpenFiles ==
    /\ pc = "open"
    /\ IF target.exists
       THEN /\ infile' = SplitLines(target.content)
            /\ pc' = "loop"
            /\ exc' = exc
       ELSE /\ exc' = OSError("open", filename)
            /\ pc' = "except"
            /\ infile' = infile
    /\ UNCHANGED <<target, tmpfile, filename, what, data, found_start, found_end,
                   before, history>>
    /\ UNCHANGED notPatch

LoopLine ==
    /\ pc = "loop"
    /\ infile # <<>>
    /\ LET st == LoopBody([temp |-> tmpfile.content, found_start |-> found_start,
                           found_end |-> found_end], Head(infile), what, data)
       IN  /\ tmpfile' = File(st.temp)
           /\ found_start' = st.found_start
           /\ found_end' = st.found_end
    /\ infile' = Tail(infile)
    /\ UNCHANGED <<target, pc, filename, what, data, exc, before, history>>
    /\ UNCHANGED notPatch

\* CheckMarkers without the check of found_end.
CheckMarkersStartOnly ==
    /\ pc = "loop"
    /\ infile = <<>>
    /\ IF ~found_start
       THEN exc' = MarkerError(StartMarker(what), filename) /\ pc' = "except"
       ELSE exc' = exc /\ pc' = "else"
    /\ UNCHANGED <<target, tmpfile, filename, what, data, infile, found_start,
                   found_end, before, history>>
    /\ UNCHANGED notPatch

\* The loop is over and the files are closed: the two checks.
CheckMarkers ==
    /\ pc = "loop"
    /\ infile = <<>>
    /\ IF ~found_start
       THEN exc' = MarkerError(StartMarker(what), filename) /\ pc' = "except"
       ELSE IF ~found_end
       THEN exc' = MarkerError(EndMarker(what), filename) /\ pc' = "except"
       ELSE exc' = exc /\ pc' = "else"
    /\ UNCHANGED <<target, tmpfile, filename, what, data, infile, found_start,
                   found_end, before, history>>
    /\ UNCHANGED notPatch

\* except: os.remove(tmpname); raise
ExceptClause ==
    /\ pc = "except"
    /\ tmpfile' = NoFile
    /\ pc' = "done"
    /\ UNCHANGED <<target, filename, what, data, infile, found_start, found_end,
                   exc, before, history>>
    /\ UNCHANGED notPatch

\* else: os.remove(filename), which the file system may refuse.
RemoveTarget ==
    /\ pc = "else"
    /\ \/ target' = NoFile /\ pc' = "move" /\ exc' = exc
       \/ target' = target /\ pc' = "done" /\ exc' = OSError("remove", filename)
    /\ UNCHANGED <<tmpfile, filename, what, data, infile, found_start, found_end,
                   before, history>>
    /\ UNCHANGED notPatch

\* shutil.move(tmpname, filename): os.rename when both paths are on one file
\* system.
MoveRename ==
    /\ pc = "move"
    /\ target' = tmpfile
    /\ tmpfile' = NoFile
    /\ pc' = "done"
    /\ UNCHANGED <<filename, what, data, infile, found_start, found_end, exc,
                   before, history>>
    /\ UNCHANGED notPatch

\* shutil.move fails.
MoveFails ==
    /\ pc = "move"
    /\ exc' = OSError("move", filename)
    /\ pc' = "done"
    /\ UNCHANGED <<target, tmpfile, filename, what, data, infile, found_start,
                   found_end, before, history>>
    /\ UNCHANGED notPatch

\* shutil.move across file systems: copy2 creates the destination, ...
MoveCopyCreate ==
    /\ pc = "move"
    /\ target' = File(<<>>)
    /\ pc' = "copy"
    /\ UNCHANGED <<tmpfile, filename, what, data, infile, found_start, found_end,
                   exc, before, history>>
    /\ UNCHANGED notPatch

\* ... writes the data to it, which may fail, ...
MoveCopyWrite ==
    /\ pc = "copy"
    /\ \/ target' = File(tmpfile.content) /\ pc' = "unlink" /\ exc' = exc
       \/ target' = target /\ pc' = "done" /\ exc' = OSError("move", filename)
    /\ UNCHANGED <<tmpfile, filename, what, data, infile, found_start, found_end,
                   before, history>>
    /\ UNCHANGED notPatch

\* ... and the source is unlinked.
MoveUnlink ==
    /\ pc = "unlink"
    /\ tmpfile' = NoFile
    /\ pc' = "done"
    /\ UNCHANGED <<target, filename, what, data, infile, found_start, found_end,
                   exc, before, history>>
    /\ UNCHANGED notPatch

\* The whole `for line in infile` loop on a text, as one function.
RECURSIVE RunLoop(_, _, _, _)
RunLoop(st, lines, w, d) ==
    IF lines = <<>> THEN st
    ELSE RunLoop(LoopBody(st, Head(lines), w, d), Tail(lines), w, d)

(***************************************************************************)
(* What the statements about the block patcher speak of.                   *)
(***************************************************************************)
\* A line without its terminator.
Chomp(l) == IF l # <<>> /\ l[Len(l)] = NL THEN SubSeq(l, 1, Len(l) - 1) ELSE l

\* The line is marker m and nothing else / once white space is stripped.
IsExactly(l, m) == Text(Chomp(l)) = m
StripsTo(l, m) == Text(Strip(l)) = m

BeforeLines == SplitLines(before.content)
StartLines(lines) == { i \in 1..Len(lines) : StripsTo(lines[i], StartMarker(what)) }
EndLines(lines) == { i \in 1..Len(lines) : StripsTo(lines[i], EndMarker(what)) }

\* No marker of the block has white space around it.
PlainMarkers(lines) ==
    /\ \A i \in StartLines(lines) : IsExactly(lines[i], StartMarker(what))
    /\ \A i \in EndLines(lines) : IsExactly(lines[i], EndMarker(what))

\* A start sentinel line followed later by an end sentinel line.
StartThenEnd(lines) ==
    \E i \in StartLines(lines), j \in EndLines(lines) : i < j

Min(S) == CHOOSE x \in S : \A y \in S : x <= y

\* prefix + start sentinel + X + end sentinel + suffix, for the first start
\* sentinel and the first end sentinel after it.
Spliced(lines, d) ==
    LET s == Min(StartLines(lines))
        e == Min({ j \in EndLines(lines) : j > s })
    IN  Join(SubSeq(lines, 1, s)) \o Join(d) \o lines[e]
            \o Join(SubSeq(lines, e + 1, Len(lines)))

\* One start sentinel line, one end sentinel line, in this order, both
\* without white space around them.
WellFormed(lines) ==
    /\ PlainMarkers(lines)
    /\ Cardinality(StartLines(lines)) = 1
    /\ Cardinality(EndLines(lines)) = 1
    /\ StartThenEnd(lines)

\* No line of the new content strips to a marker of the block.
MarkerFree(d) ==
    LET lines == SplitLines(Join(d))
    IN  StartLines(lines) = {} /\ EndLines(lines) = {}

Succeeded == pc = "done" /\ exc = NoExc

\* C1 (as claimed): on a file with a start sentinel line followed later by an
\* end sentinel line, a successful call leaves prefix + start sentinel + X +
\* end sentinel + suffix: every original line between the sentinels is gone.
\* Stated for the files with a single start sentinel line and no white space
\* around a marker, where "the start sentinel" has one reading.
C1_SplicedOnSuccess ==
    (/\ Succeeded
     /\ before.exists
     /\ PlainMarkers(BeforeLines)
     /\ Cardinality(StartLines(BeforeLines)) = 1
     /\ StartThenEnd(BeforeLines))
        => target = File(Spliced(BeforeLines, data))

\* C2 (as claimed): a call with X and then a call with Y on the same file and
\* block both succeed and leave the file one call with Y leaves, for every X
\* and Y. Stated for the well-formed files, for X and Y without a marker line,
\* and for the runs in which the file system refuses nothing.
C2_SecondCallReplaces ==
    (/\ pc = "done"
     /\ Len(history) = 1
     /\ history[1].before.exists
     /\ WellFormed(SplitLines(history[1].before.content))
     /\ MarkerFree(history[1].data)
     /\ MarkerFree(data)
     /\ history[1].exc.type # "OSError"
     /\ exc.type # "OSError")
        => /\ history[1].exc = NoExc
           /\ exc = NoExc
           /\ target = File(Spliced(SplitLines(history[1].before.content), data))

MissingMarkers ==
    (IF StartLines(BeforeLines) = {} THEN {StartMarker(what)} ELSE {})
        \cup (IF EndLines(BeforeLines) = {} THEN {EndMarker(what)} ELSE {})

\* C3: when the file has no start sentinel line or no end sentinel line (a
\* sentinel line being a line that is the marker once stripped), the call
\* raises an error that names a missing marker and the file, and the file is
\* at every step, and after the call, what it was before the call.
C3_MissingMarkerRaises ==
    (pc # "idle" /\ before.exists /\ MissingMarkers # {})
        => /\ target = before
           /\ pc = "done" =>
                /\ exc.type = "Exception"
                /\ exc.marker \in MissingMarkers
                /\ exc.file = filename

\* C3's case: a file with a start but no end sentinel line, new content given,
\* and the call has ended.
C3_Witness ==
    /\ pc = "done"
    /\ before.exists
    /\ StartLines(BeforeLines) # {}
    /\ EndLines(BeforeLines) = {}
    /\ data # <<>>
    /\ exc = MarkerError("// QUTE_OPTIONS_END", TargetPath)
    /\ tmpfile = NoFile

\* The complete new content: what the loop writes to the temporary file.
NewContent ==
    RunLoop([temp |-> <<>>, found_start |-> FALSE, found_end |-> FALSE],
            BeforeLines, what, data).temp

\* C4 (as claimed): at every step of the call the target path holds the
\* complete original content or the complete new content, never no file and
\* never a part of one.
C4_TargetAlwaysComplete ==
    (pc # "idle" /\ before.exists)
        => /\ target.exists
           /\ target.content \in {before.content, NewContent}

\* C5 (as claimed): the call succeeds only on a file with a start sentinel
\* line that precedes an end sentinel line; on every other file it fails and
\* leaves the file as it was. Stated for the files with no white space around
\* a marker and the runs in which the file system refuses nothing.
C5_SucceedsOnlyWhenStartPrecedesEnd ==
    (/\ pc = "done"
     /\ before.exists
     /\ PlainMarkers(BeforeLines)
     /\ exc.type # "OSError"
     /\ ~StartThenEnd(BeforeLines))
        => /\ exc.type = "Exception"
           /\ target = before

\* C11 (as claimed): whenever the call ends without a successful replace (the
\* file cannot be opened, a marker is missing, or removing or moving a file
\* fails), the temporary file it created no longer exists.
C11_TempRemovedOnFailure ==
    (pc = "done" /\ exc # NoExc) => ~tmpfile.exists

\* What handling a line as a start sentinel, as an end sentinel or as ordinary
\* content does to the temporary file and the two flags.
Handle(st, l, kind) ==
    CASE kind = "start" ->
            [temp |-> st.temp \o l \o Join(data), found_start |-> TRUE,
             found_end |-> st.found_end]
      [] kind = "end" ->
            [temp |-> st.temp \o l, found_start |-> st.found_start,
             found_end |-> TRUE]
      [] kind = "ordinary" ->
            [temp |-> IF st.found_start /\ ~st.found_end THEN st.temp
                      ELSE st.temp \o l,
             found_start |-> st.found_start, found_end |-> st.found_end]

\* What a line is taken for, when a sentinel is a line that exactly equals a
\* marker (exact) or a line that equals it once stripped.
SentinelKind(l, exact) ==
    IF (IF exact THEN IsExactly(l, StartMarker(what))
                 ELSE StripsTo(l, StartMarker(what))) THEN "start"
    ELSE IF (IF exact THEN IsExactly(l, EndMarker(what))
                      ELSE StripsTo(l, EndMarker(what))) THEN "end"
    ELSE "ordinary"

RECURSIVE HandledLines(_, _)
HandledLines(lines, exact) ==
    IF lines = <<>>
    THEN [temp |-> <<>>, found_start |-> FALSE, found_end |-> FALSE]
    ELSE Handle(HandledLines(SubSeq(lines, 1, Len(lines) - 1), exact),
                lines[Len(lines)], SentinelKind(lines[Len(lines)], exact))

\* The lines of the file the loop has read so far.
Consumed == SubSeq(BeforeLines, 1, Len(BeforeLines) - Len(infile))

LoopState ==
    [temp |-> tmpfile.content, found_start |-> found_start,
     found_end |-> found_end]

\* C12 (as claimed): a line is handled as a sentinel only when, without its
\* line terminator, it exactly equals the start or the end marker of the
\* upper-cased block name; every other line, a marker with white space around
\* it included, is handled as ordinary content.
C12_ExactSentinels ==
    pc = "loop" => LoopState = HandledLines(Consumed, TRUE)

\* C12 (amended): a line is handled as a sentinel exactly when, with the white
\* space at both ends stripped, it equals the start or the end marker of the
\* upper-cased block name; every other line is handled as ordinary content.
C12_StrippedSentinels ==
    pc = "loop" => LoopState = HandledLines(Consumed, FALSE)

\* C12's case: the loop has read the whole of a file whose only start marker
\* has white space around it, and has written the new content after it.
C12_Witness ==
    /\ pc = "loop"
    /\ infile = <<>>
    /\ data # <<>>
    /\ StartLines(BeforeLines) # {}
    /\ \A i \in StartLines(BeforeLines) :
           ~IsExactly(BeforeLines[i], StartMarker(what))
    /\ EndLines(BeforeLines) # {}
    /\ found_start
    /\ found_end
    /\ what = "OPTIONS"

\* No call of _format_block is under way.
PatchStart(t) ==
    /\ target = t
    /\ tmpfile = NoFile
    /\ pc = "idle"
    /\ filename = TargetPath
    /\ what = ""
    /\ data = <<>>
    /\ infile = <<>>
    /\ found_start = FALSE
    /\ found_end = FALSE
    /\ exc = NoExc
    /\ before = NoFile
    /\ history = <<>>

PatchInit == \E t \in { File(c) : c \in Contents } \cup { NoFile } : PatchStart(t)

PatchIdle == PatchStart(NoFile)

PatchNext ==
    \/ Call
    \/ OpenFiles
    \/ LoopLine
    \/ CheckMarkers
    \/ ExceptClause
    \/ RemoveTarget
    \/ MoveRename
    \/ MoveFails
    \/ MoveCopyCreate
    \/ MoveCopyWrite
    \/ MoveUnlink

(***************************************************************************)
(* Commands                                                                *)
(***************************************************************************)
MaxCmds == 2
MaxArgs == 2

\* The command names, in the order of Python's string comparison.
AllCmdNames == <<"back", "bind", "close", "debug-crash", "open", "quit">>
CmdNames == { AllCmdNames[i] : i \in 1..MaxCmds }
Rank(name) == CHOOSE i \in 1..Len(AllCmdNames) : AllCmdNames[i] = name

\* usertypes.KeyMode, as far as cmd.modes goes.
KeyModes == {"normal", "insert"}

\* The parameters of a handler that become arguments.
ArgKeys == {"url", "tab", "count"}

\* argparser.arg_name(key): the name shown for a positional argument.
ArgName(key) == key
LongFlag(key) == "--" \o key
ShortFlag(key) == "-" \o SubSeq(key, 1, 1)

NoError == [type |-> "none", arg |-> "", command |-> ""]
\* KeyError("No description for arg {} of command '{}'!".format(e, cmd.name))
ArgKeyError(key, name) == [type |-> "KeyError", arg |-> key, command |-> name]

Range(q) == { q[i] : i \in 1..Len(q) }

\* The sequences without repetition over S, of at most n elements.
RECURSIVE DistinctSeqs(_, _)
DistinctSeqs(S, n) ==
    IF n = 0 THEN { <<>> }
    ELSE LET shorter == DistinctSeqs(S, n - 1)
         IN  shorter \cup
                 UNION { { Append(q, x) : x \in S \ Range(q) } : q \in shorter }

\* parser.arg_descs of a handler whose docstring describes the keys of D.
ArgDescs(D) == [k \in D |-> "the " \o k]

\* A command with the given arguments: pos_args is a list of (arg, name),
\* opt_args maps arg to (long_flag, short_flag), in the order of the handler's
\* parameters.
Command(name, deprecated, debug, modes, pos, opts, described) ==
    [name |-> name, deprecated |-> deprecated, debug |-> debug, modes |-> modes,
     pos_args |-> [i \in 1..Len(pos) |-> <<pos[i], ArgName(pos[i])>>],
     opt_args |-> [i \in 1..Len(opts) |->
                      <<opts[i], <<LongFlag(opts[i]), ShortFlag(opts[i])>> >>],
     arg_descs |-> ArgDescs(described)]

(***************************************************************************)
(* _get_command_doc_args and _get_command_doc                              *)
(***************************************************************************)
\* The loop over cmd.pos_args from its i-th element on: the lines yielded, up
\* to the first argument without a description.
RECURSIVE YieldPosArgs(_, _, _)
YieldPosArgs(c, i, lines) ==
    IF i > Len(c.pos_args) THEN [lines |-> lines, exc |-> NoError]
    ELSE LET arg == c.pos_args[i][1]
             name == c.pos_args[i][2]
         IN  IF arg \in DOMAIN c.arg_descs
             THEN YieldPosArgs(c, i + 1,
                      Append(lines, "* +'" \o name \o "'+: " \o c.arg_descs[arg]))
             ELSE [lines |-> lines, exc |-> ArgKeyError(arg, c.name)]

\* YieldOptArgs that gives an argument without a description an empty one
\* instead of raising.
RECURSIVE YieldOptArgsLenient(_, _, _)
YieldOptArgsLenient(c, i, lines) ==
    IF i > Len(c.opt_args) THEN [lines |-> lines, exc |-> NoError]
    ELSE LET arg == c.opt_args[i][1]
             desc == IF arg \in DOMAIN c.arg_descs THEN c.arg_descs[arg] ELSE ""
         IN  YieldOptArgsLenient(c, i + 1, Append(lines, "* " \o desc))

\* The loop over cmd.opt_args.items().
RECURSIVE YieldOptArgs(_, _, _)
YieldOptArgs(c, i, lines) ==
    IF i > Len(c.opt_args) THEN [lines |-> lines, exc |-> NoError]
    ELSE LET arg == c.opt_args[i][1]
             long_flag == c.opt_args[i][2][1]
             short_flag == c.opt_args[i][2][2]
         IN  IF arg \in DOMAIN c.arg_descs
             THEN YieldOptArgs(c, i + 1,
                      Append(lines, "* +*" \o short_flag \o "*+, +*" \o long_flag
                                        \o "*+: " \o c.arg_descs[arg]))
             ELSE [lines |-> lines, exc |-> ArgKeyError(arg, c.name)]

\* list(_get_command_doc_args(cmd, parser)): every line the generator yields,
\* or the exception it raises.
GetCommandDocArgs(c) ==
    LET pos == IF c.pos_args # <<>>
               THEN YieldPosArgs(c, 1, <<"", "==== positional arguments">>)
               ELSE [lines |-> <<>>, exc |-> NoError]
    IN  IF pos.exc # NoError THEN pos
        ELSE IF c.opt_args # <<>>
        THEN YieldOptArgs(c, 1, pos.lines \o <<"", "==== optional arguments">>)
        ELSE pos

\* _get_command_doc(name, cmd): the anchor and the heading, then the lines of
\* the arguments. (The syntax line, the descriptions, the count and the notes
\* are left out.)
GetCommandDocOf(name, c) ==
    LET args == GetCommandDocArgs(c)
    IN  [output |-> <<"[[" \o name \o "]]", "=== " \o name>> \o args.lines
                        \o <<"", "">>,
         exc |-> args.exc]

DocStart(c) ==
    /\ cmd = c
    /\ doc_pc = "call"
    /\ doc_output = <<>>
    /\ doc_exc = NoError

\* The commands _get_command_doc is run on.
DocCommands ==
    { Command("open", FALSE, FALSE, {"normal"}, pos, opts, described) :
        pos \in DistinctSeqs(ArgKeys, MaxArgs),
        opts \in DistinctSeqs(ArgKeys, MaxArgs),
        described \in SUBSET ArgKeys }

DocInit ==
    \E c \in { d \in DocCommands :
                 \A i \in 1..Len(d.pos_args), j \in 1..Len(d.opt_args) :
                     d.pos_args[i][1] # d.opt_args[j][1] } : DocStart(c)

DocIdle == DocStart(Command("open", FALSE, FALSE, {"normal"}, <<>>, <<>>, {}))

GetCommandDoc ==
    /\ doc_pc = "call"
    /\ LET r == GetCommandDocOf(cmd.name, cmd)
       IN  /\ doc_exc' = r.exc
           /\ doc_output' = IF r.exc = NoError THEN r.output ELSE doc_output
    /\ doc_pc' = IF doc_exc' = NoError THEN "returned" ELSE "raised"
    /\ UNCHANGED cmd
    /\ UNCHANGED notDoc

\* The keys the descriptor refers to, and those of them without a description.
DescriptorKeys(c) ==
    { c.pos_args[i][1] : i \in 1..Len(c.pos_args) }
        \cup { c.opt_args[i][1] : i \in 1..Len(c.opt_args) }
Undescribed(c) == DescriptorKeys(c) \ DOMAIN c.arg_descs

\* C7: for a command with a positional or an optional argument,
\* _get_command_doc raises a KeyError naming an argument key without a
\* description and the command when the descriptor has such a key, and
\* returns, with one line per argument, when every key has a description.
C7_MissingDescriptionRaises ==
    (doc_pc # "call" /\ DescriptorKeys(cmd) # {})
        => IF Undescribed(cmd) # {}
           THEN /\ doc_pc = "raised"
                /\ doc_exc.type = "KeyError"
                /\ doc_exc.arg \in Undescribed(cmd)
                /\ doc_exc.command = cmd.name
                /\ doc_output = <<>>
           ELSE /\ doc_pc = "returned"
                /\ doc_exc = NoError
                /\ Len(doc_output) =
                       4 + (IF cmd.pos_args # <<>> THEN 2 + Len(cmd.pos_args) ELSE 0)
                         + (IF cmd.opt_args # <<>> THEN 2 + Len(cmd.opt_args) ELSE 0)

\* C7's case: the positional argument has a description, the optional one has
\* none, and the call has raised for the optional one.
C7_Witness ==
    /\ doc_pc = "raised"
    /\ Len(cmd.pos_args) = 1
    /\ Len(cmd.opt_args) = 1
    /\ cmd.pos_args[1][1] \in DOMAIN cmd.arg_descs
    /\ doc_exc = ArgKeyError(cmd.opt_args[1][1], "open")

(***************************************************************************)
(* generate_commands                                                       *)
(***************************************************************************)
\* Classify that looks at the debug flag before the modes.
ClassifyDebugFirst(c) ==
    IF c.deprecated THEN "skip"
    ELSE IF c.debug THEN "debug"
    ELSE IF "normal" \notin c.modes THEN "other"
    ELSE "normal"

\* The branch of the classifying loop a command takes.
Classify(c) ==
    IF c.deprecated THEN "skip"
    ELSE IF "normal" \notin c.modes THEN "other"
    ELSE IF c.debug THEN "debug"
    ELSE "normal"

\* list.sort() on a list of (name, cmd): by name, the names being unique.
RECURSIVE Insert(_, _)
Insert(sorted, e) ==
    IF sorted = <<>> THEN <<e>>
    ELSE IF Rank(e[1]) < Rank(Head(sorted)[1]) THEN <<e>> \o sorted
    ELSE <<Head(sorted)>> \o Insert(Tail(sorted), e)

RECURSIVE Sort(_)
Sort(list) ==
    IF list = <<>> THEN <<>> ELSE Insert(Sort(SubSeq(list, 1, Len(list) - 1)),
                                         list[Len(list)])

NamesOf(list) == [i \in 1..Len(list) |-> list[i][1]]

\* What is written to the file, item by item.
Heading(bucket) == [kind |-> "heading", bucket |-> bucket, names |-> <<>>]
\* _get_command_quickref(cmds)
QuickRef(bucket, list) == [kind |-> "quickref", bucket |-> bucket, names |-> NamesOf(list)]
Section(bucket, name) == [kind |-> "section", bucket |-> bucket, names |-> <<name>>]

\* for name, cmd in list: f.write(_get_command_doc(name, cmd)), from the i-th
\* element on: the sections written, up to the first command whose
\* documentation raises.
RECURSIVE WriteDocs(_, _, _, _)
WriteDocs(bucket, list, i, items) ==
    IF i > Len(list) THEN [items |-> items, exc |-> NoError]
    ELSE LET r == GetCommandDocOf(list[i][1], list[i][2])
         IN  IF r.exc # NoError THEN [items |-> items, exc |-> r.exc]
             ELSE WriteDocs(bucket, list, i + 1,
                            Append(items, Section(bucket, list[i][1])))

\* The heading of a bucket, its quick reference and its sections.
WriteBucket(bucket, list, next) ==
    LET r == WriteDocs(bucket, list, 1, <<Heading(bucket), QuickRef(bucket, list)>>)
    IN  /\ gc_out' = gc_out \o r.items
        /\ gc_exc' = r.exc
        /\ gc_pc' = IF r.exc = NoError THEN next ELSE "raised"
        /\ UNCHANGED <<registry, gc_i, normal_cmds, other_cmds, debug_cmds>>
        /\ UNCHANGED notCmds

\* with _open_file(filename) as f: the header and the three empty lists.
OpenCommandsFile ==
    /\ gc_pc = "call"
    /\ gc_out' = <<[kind |-> "header", bucket |-> "", names |-> <<>>]>>
    /\ gc_pc' = "classify"
    /\ UNCHANGED <<registry, gc_i, normal_cmds, other_cmds, debug_cmds, gc_exc>>
    /\ UNCHANGED notCmds

\* One iteration of `for name, cmd in objects.commands.items()`.
ClassifyCommand ==
    /\ gc_pc = "classify"
    /\ gc_i <= Len(registry)
    /\ LET c == registry[gc_i]
           e == <<c.name, c>>
           branch == Classify(c)
       IN  /\ normal_cmds' = IF branch = "normal" THEN Append(normal_cmds, e)
                             ELSE normal_cmds
           /\ other_cmds' = IF branch = "other" THEN Append(other_cmds, e)
                            ELSE other_cmds
           /\ debug_cmds' = IF branch = "debug" THEN Append(debug_cmds, e)
                            ELSE debug_cmds
    /\ gc_i' = gc_i + 1
    /\ UNCHANGED <<registry, gc_pc, gc_out, gc_exc>>
    /\ UNCHANGED notCmds

\* normal_cmds.sort(); other_cmds.sort(); debug_cmds.sort()
SortBuckets ==
    /\ gc_pc = "classify"
    /\ gc_i > Len(registry)
    /\ normal_cmds' = Sort(normal_cmds)
    /\ other_cmds' = Sort(other_cmds)
    /\ debug_cmds' = Sort(debug_cmds)
    /\ gc_pc' = "normal"
    /\ UNCHANGED <<registry, gc_i, gc_out, gc_exc>>
    /\ UNCHANGED notCmds

WriteNormal == gc_pc = "normal" /\ WriteBucket("normal", normal_cmds, "other")
WriteOther == gc_pc = "other" /\ WriteBucket("other", other_cmds, "debug")
WriteDebug == gc_pc = "debug" /\ WriteBucket("debug", debug_cmds, "returned")

CmdsStart(r) ==
    /\ registry = r
    /\ gc_pc = "call"
    /\ gc_i = 1
    /\ normal_cmds = <<>>
    /\ other_cmds = <<>>
    /\ debug_cmds = <<>>
    /\ gc_out = <<>>
    /\ gc_exc = NoError

\* A registered command: any flags, any non-empty set of modes, and either no
\* argument or one positional argument without a description.
RegisteredCommands(name) ==
    { Command(name, deprecated, debug, modes, pos, <<>>, {}) :
        deprecated \in BOOLEAN, debug \in BOOLEAN,
        modes \in (SUBSET KeyModes) \ { {} },
        pos \in { <<>>, <<"url">> } }

\* The registries: at most MaxCmds commands, in any order of registration.
Registries ==
    UNION { { r \in [1..Len(names) -> UNION { RegisteredCommands(n) : n \in CmdNames }] :
                \A i \in 1..Len(names) : r[i].name = names[i] } :
            names \in DistinctSeqs(CmdNames, MaxCmds) }

CmdsInit == \E r \in Registries : CmdsStart(r)

CmdsIdle == CmdsStart(<<>>)

CmdsNext ==
    \/ OpenCommandsFile
    \/ ClassifyCommand
    \/ SortBuckets
    \/ WriteNormal
    \/ WriteOther
    \/ WriteDebug

\* The bucket the claimed rule gives a command that is not deprecated.
BucketOf(c) ==
    CASE "normal" \notin c.modes -> "other"
      [] "normal" \in c.modes /\ c.debug -> "debug"
      [] OTHER -> "normal"

Registered(name) == CHOOSE c \in Range(registry) : c.name = name

Count(q, x) == Cardinality({ i \in 1..Len(q) : q[i] = x })

BucketList(bucket) ==
    CASE bucket = "normal" -> normal_cmds
      [] bucket = "other" -> other_cmds
      [] bucket = "debug" -> debug_cmds

\* How often the command is in a written item of this kind and bucket.
Written(kind, bucket, name) ==
    Cardinality({ i \in 1..Len(gc_out) :
                    /\ gc_out[i].kind = kind
                    /\ gc_out[i].bucket = bucket
                    /\ name \in Range(gc_out[i].names) })

Buckets == {"normal", "other", "debug"}

\* C6: a deprecated command is in no bucket, no quick-reference table and no
\* detailed section, whatever its modes and debug flag; any other command is,
\* once the loop is over, in exactly one bucket: "other" when its modes lack
\* the normal mode (its debug flag set or not), else "debug" when its debug
\* flag is set, else "normal"; it is written under that bucket only, and once
\* in its table and once in its sections when generate_commands returns.
C6_BucketRule ==
    \A c \in Range(registry) :
        \A b \in Buckets :
            LET inBucket == Count(NamesOf(BucketList(b)), c.name)
                expected == IF ~c.deprecated /\ b = BucketOf(c) THEN 1 ELSE 0
            IN  /\ inBucket <= expected
                /\ Written("quickref", b, c.name) <= expected
                /\ Written("section", b, c.name) <= expected
                /\ gc_pc \in {"normal", "other", "debug", "returned", "raised"}
                       => inBucket = expected
                /\ gc_pc = "returned"
                       => /\ Written("quickref", b, c.name) = expected
                          /\ Written("section", b, c.name) = expected

\* C6's case: a command that has the debug flag and lacks the normal mode, and
\* a deprecated one, and generate_commands has returned.
C6_Witness ==
    /\ gc_pc = "returned"
    /\ \E c \in Range(registry) :
          /\ ~c.deprecated /\ c.debug /\ "normal" \notin c.modes
          /\ Written("section", "other", c.name) = 1
    /\ \E c \in Range(registry) : c.deprecated /\ c.debug

(***************************************************************************)
(* Python values of more than one type.                                    *)
(***************************************************************************)
PyNone == [kind |-> "None", val |-> ""]
PyStr(x) == [kind |-> "str", val |-> x]
PyInt(n) == [kind |-> "int", val |-> n]
PyTuple(t) == [kind |-> "tuple", val |-> t]
PyTrue == [kind |-> "bool", val |-> "True"]
PyFalse == [kind |-> "bool", val |-> "False"]

IsNone(v) == v.kind = "None"
\* v == 'x' for a string literal 'x'
EqStr(v, x) == v.kind = "str" /\ v.val = x
\* v == n for a number n
EqInt(v, n) == v.kind = "int" /\ v.val = n

\* sep.join(strings)
RECURSIVE JoinWith(_, _)
JoinWith(sep, strings) ==
    IF strings = <<>> THEN ""
    ELSE IF Len(strings) = 1 THEN strings[1]
    ELSE strings[1] \o sep \o JoinWith(sep, Tail(strings))

\* "'{}'".format(e)
Quoted(e) == "'" \o e \o "'"

(***************************************************************************)
(* _format_action and the functions it calls                               *)
(***************************************************************************)
MaxNargs == 2

\* argparse.SUPPRESS
SUPPRESS == "==SUPPRESS=="

\* _get_action_metavar(action, nargs)
GetActionMetavar(a, nargs) ==
    IF ~IsNone(a.metavar)
    THEN LET elems == IF a.metavar.kind = "str"
                      THEN [i \in 1..nargs |-> a.metavar.val]
                      ELSE a.metavar.val
         IN  JoinWith(" ", [i \in 1..Len(elems) |-> Quoted(elems[i])])
    ELSE IF ~IsNone(a.choices)
    THEN "'{" \o JoinWith(",", a.choices.val) \o "}'"
    ELSE Quoted(Upper(a.dest))

\* _format_action_args(action)
FormatActionArgs(a) ==
    IF IsNone(a.nargs) THEN GetActionMetavar(a, 1)
    ELSE IF EqStr(a.nargs, "?") THEN "[" \o GetActionMetavar(a, 1) \o "]"
    ELSE IF EqStr(a.nargs, "*")
    THEN LET mv == GetActionMetavar(a, 1) IN "[" \o mv \o " [" \o mv \o " ...]]"
    ELSE IF EqStr(a.nargs, "+")
    THEN LET mv == GetActionMetavar(a, 1) IN mv \o " [" \o mv \o " ...]"
    ELSE IF EqStr(a.nargs, "...") THEN "..."
    ELSE GetActionMetavar(a, a.nargs.val)

Emphasis(x) == "*" \o x \o "*"

ActionStart(a) ==
    /\ action = a
    /\ fa_pc = "call"
    /\ args_string = ""
    /\ fa_result = PyNone

\* The actions of a parser: with or without option strings, help given or
\* suppressed, every kind of metavar, choices and nargs.
Actions ==
    [ option_strings : { <<>>, <<"--target">>, <<"-t", "--target">> },
      dest : { "target", "basedir" },
      metavar : { PyNone, PyStr("X"), PyTuple(<<"A", "B">>) },
      choices : { PyNone, PyTuple(<<"tab", "window">>) },
      nargs : { PyNone, PyStr("?"), PyStr("*"), PyStr("+"), PyStr("...") }
                  \cup { PyInt(n) : n \in 0..MaxNargs },
      help : { "the help", SUPPRESS } ]

ActionInit == \E a \in Actions : ActionStart(a)

ActionIdle ==
    ActionStart([option_strings |-> <<>>, dest |-> "target", metavar |-> PyNone,
                 choices |-> PyNone, nargs |-> PyNone, help |-> SUPPRESS])

\* _format_action(action)
FormatAction ==
    /\ fa_pc = "call"
    /\ fa_pc' = "returned"
    /\ IF action.help = SUPPRESS
       THEN fa_result' = PyNone /\ args_string' = args_string
       ELSE IF action.option_strings = <<>>
       THEN /\ fa_result' = PyStr(Emphasis(GetActionMetavar(action, 1)) \o "::"
                                      \o "\n    " \o action.help \o "\n")
            /\ args_string' = args_string
       ELSE IF EqInt(action.nargs, 0)
       THEN /\ fa_result' =
                 PyStr(JoinWith(", ", [i \in 1..Len(action.option_strings) |->
                                          Emphasis(action.option_strings[i])])
                           \o "::" \o "\n    " \o action.help \o "\n")
            /\ args_string' = args_string
       ELSE /\ args_string' = FormatActionArgs(action)
            /\ fa_result' =
                 PyStr(JoinWith(", ", [i \in 1..Len(action.option_strings) |->
                                          Emphasis(action.option_strings[i])
                                              \o " " \o args_string'])
                           \o "::" \o "\n    " \o action.help \o "\n")
    /\ UNCHANGED action
    /\ UNCHANGED notAction

\* An option that takes a value and is rendered: it has option strings, its
\* help is not suppressed and its nargs is not 0.
TakesValue(a) ==
    /\ a.option_strings # <<>>
    /\ a.help # SUPPRESS
    /\ ~EqInt(a.nargs, 0)

\* The arguments the claimed rule gives for the metavar mv.
ByArity(nargs, mv) ==
    CASE IsNone(nargs) -> mv
      [] EqStr(nargs, "?") -> "[" \o mv \o "]"
      [] EqStr(nargs, "*") -> "[" \o mv \o " [" \o mv \o " ...]]"
      [] EqStr(nargs, "+") -> mv \o " [" \o mv \o " ...]"
      [] EqStr(nargs, "...") -> "..."
      [] nargs.kind = "int" -> JoinWith(" ", [i \in 1..nargs.val |-> mv])

\* The metavar of an action, however it is determined: the explicit string,
\* the choices in braces, or the upper-cased destination, in quotes.
DisplayedMetavar(a) ==
    IF a.metavar.kind = "str" THEN "'" \o a.metavar.val \o "'"
    ELSE IF a.choices.kind = "tuple" THEN "'{" \o JoinWith(",", a.choices.val) \o "}'"
    ELSE "'" \o Upper(a.dest) \o "'"

\* C8 (as claimed): for an option that takes a value, the arguments are the
\* metavar MV rendered by arity: MV, [MV], [MV [MV ...]], MV [MV ...], the
\* ellipsis, or MV repeated N times and joined by spaces, whether the metavar
\* is an explicit string, a choice set or derived from the destination.
C8_ArgsByArity ==
    (fa_pc = "returned" /\ TakesValue(action) /\ action.metavar.kind # "tuple")
        => args_string = ByArity(action.nargs, DisplayedMetavar(action))

(***************************************************************************)
(* _generate_setting_backend_info                                          *)
(***************************************************************************)
MaxBackends == 2

\* The names of usertypes.Backend, in the order sorted() gives them.
BackendNames == <<"QtWebEngine", "QtWebKit">>

\* all_backends
AllBackends == <<"QtWebKit", "QtWebEngine">>

\* ValueError("Invalid value {!r} for opt.backends".format(opt.backends))
BackendsError(backends) == [type |-> "ValueError", arg |-> "opt.backends", command |-> ""]

\* What the loop writes for one item that is neither True nor False, without
\* the branch for False.
NoticeWithoutFalse(name, conditional) ==
    IF conditional = PyTrue THEN <<>>
    ELSE << "\nOn " \o name \o ", this setting requires " \o conditional.val
                \o " or newer.\n" >>

\* What one iteration of the loop over raw_backends writes.
Notice(name, conditional) ==
    IF conditional = PyTrue THEN <<>>
    ELSE IF conditional = PyFalse
    THEN << "\nOn " \o name \o ", this setting is unavailable.\n" >>
    ELSE << "\nOn " \o name \o ", this setting requires " \o conditional.val
                \o " or newer.\n" >>

\* sorted(opt.raw_backends.items())
SortedItems(d) ==
    LET names == SelectSeq(BackendNames, LAMBDA n : n \in DOMAIN d)
    IN  [i \in 1..Len(names) |-> <<names[i], d[names[i]]>>]

\* The branches on opt.backends, comparing the lists as sets.
ListBranchAsSets(backends) ==
    IF Range(backends) = Range(AllBackends) THEN [out |-> <<>>, exc |-> NoError]
    ELSE IF Range(backends) = {"QtWebKit"}
    THEN [out |-> <<"\nThis setting is only available with the QtWebKit backend.\n">>,
          exc |-> NoError]
    ELSE IF Range(backends) = {"QtWebEngine"}
    THEN [out |-> <<"\nThis setting is only available with the QtWebEngine backend.\n">>,
          exc |-> NoError]
    ELSE [out |-> <<>>, exc |-> BackendsError(backends)]

\* The branches on opt.backends.
ListBranch(backends) ==
    IF backends = AllBackends THEN [out |-> <<>>, exc |-> NoError]
    ELSE IF backends = <<"QtWebKit">>
    THEN [out |-> <<"\nThis setting is only available with the QtWebKit backend.\n">>,
          exc |-> NoError]
    ELSE IF backends = <<"QtWebEngine">>
    THEN [out |-> <<"\nThis setting is only available with the QtWebEngine backend.\n">>,
          exc |-> NoError]
    ELSE [out |-> <<>>, exc |-> BackendsError(backends)]

\* if opt.raw_backends is not None: ... elif ...: the loop is entered, or one
\* branch on opt.backends is taken.
BackendInfoBranch ==
    /\ sb_pc = "call"
    /\ IF ~IsNone(opt.raw_backends)
       THEN /\ sb_items' = SortedItems(opt.raw_backends.val)
            /\ sb_pc' = "loop"
            /\ UNCHANGED <<sb_out, sb_exc>>
       ELSE LET r == ListBranch(opt.backends)
            IN  /\ sb_out' = sb_out \o r.out
                /\ sb_exc' = r.exc
                /\ sb_pc' = IF r.exc = NoError THEN "returned" ELSE "raised"
                /\ UNCHANGED sb_items
    /\ UNCHANGED opt
    /\ UNCHANGED notSetting

\* for name, conditional in sorted(opt.raw_backends.items()): one item
BackendInfoItem ==
    /\ sb_pc = "loop"
    /\ sb_items # <<>>
    /\ sb_out' = sb_out \o Notice(Head(sb_items)[1], Head(sb_items)[2])
    /\ sb_items' = Tail(sb_items)
    /\ UNCHANGED <<opt, sb_pc, sb_exc>>
    /\ UNCHANGED notSetting

BackendInfoLoopEnd ==
    /\ sb_pc = "loop"
    /\ sb_items = <<>>
    /\ sb_pc' = "returned"
    /\ UNCHANGED <<opt, sb_items, sb_out, sb_exc>>
    /\ UNCHANGED notSetting

SettingStart(o) ==
    /\ opt = o
    /\ sb_pc = "call"
    /\ sb_items = <<>>
    /\ sb_out = <<>>
    /\ sb_exc = NoError

\* The values a backend is mapped to: True, False and versions.
Conditionals == { PyTrue, PyFalse, PyStr("5.15"), PyStr("Qt 5.14") }

RawBackends ==
    { PyNone } \cup
        UNION { { [kind |-> "dict", val |-> d] : d \in [D -> Conditionals] } :
                D \in SUBSET Range(BackendNames) }

RECURSIVE ListsOver(_, _)
ListsOver(S, n) ==
    IF n = 0 THEN { <<>> }
    ELSE LET shorter == ListsOver(S, n - 1)
         IN  shorter \cup { Append(q, x) : q \in shorter, x \in S }

Options ==
    [ raw_backends : RawBackends,
      backends : ListsOver(Range(BackendNames), MaxBackends) ]

SettingInit == \E o \in Options : SettingStart(o)

SettingIdle == SettingStart([raw_backends |-> PyNone, backends |-> AllBackends])

SettingNext ==
    \/ BackendInfoBranch
    \/ BackendInfoItem
    \/ BackendInfoLoopEnd

\* s has sub as a substring.
Contains(s, sub) ==
    \E i \in 1..(Len(s) + 1) :
        i + Len(sub) - 1 <= Len(s) /\ SubSeq(s, i, i + Len(sub) - 1) = sub

Mapped == opt.raw_backends.val

\* The writes that mention the backend.
NoticesOn(name) == { i \in 1..Len(sb_out) : Contains(sb_out[i], name) }

\* C9 (as claimed): with a per-backend mapping the call returns whatever the
\* backend list is, and for each backend of the mapping True gives no notice,
\* False the notice that the setting is unavailable on the backend, and any
\* other value V a notice reading "requires <backend> V or newer".
C9_RequiresBackendVersion ==
    (sb_pc \in {"returned", "raised"} /\ ~IsNone(opt.raw_backends))
        => /\ sb_pc = "returned"
           /\ \A name \in DOMAIN Mapped :
                 CASE Mapped[name] = PyTrue -> NoticesOn(name) = {}
                   [] Mapped[name] = PyFalse ->
                        \E i \in NoticesOn(name) : Contains(sb_out[i], "unavailable")
                   [] OTHER ->
                        \E i \in NoticesOn(name) :
                            Contains(sb_out[i], "requires " \o name \o " "
                                                    \o Mapped[name].val \o " or newer")

\* What the mapping gives for one backend.
MappedNotice(name) ==
    CASE Mapped[name] = PyTrue -> <<>>
      [] Mapped[name] = PyFalse -> <<"\nOn " \o name \o ", this setting is unavailable.\n">>
      [] OTHER -> <<"\nOn " \o name \o ", this setting requires "
                       \o Mapped[name].val \o " or newer.\n">>

\* C9 (amended): with a per-backend mapping the call never raises and never
\* takes a branch on the backend list; when it returns it has written, for the
\* backends of the mapping in sorted order, nothing for True, "On <backend>,
\* this setting is unavailable." for False and "On <backend>, this setting
\* requires V or newer." for any other value V.
C9_MappingAlone ==
    ~IsNone(opt.raw_backends)
        => /\ sb_pc # "raised"
           /\ sb_exc = NoError
           /\ sb_pc = "returned" =>
                sb_out = (IF "QtWebEngine" \in DOMAIN Mapped
                          THEN MappedNotice("QtWebEngine") ELSE <<>>)
                         \o (IF "QtWebKit" \in DOMAIN Mapped
                             THEN MappedNotice("QtWebKit") ELSE <<>>)

\* C9's case: one backend mapped to "5.15", the other to False, a backend list
\* the branches would reject, and the call has returned with both notices.
C9_Witness ==
    /\ sb_pc = "returned"
    /\ ~IsNone(opt.raw_backends)
    /\ opt.backends = <<>>
    /\ DOMAIN Mapped = {"QtWebEngine", "QtWebKit"}
    /\ Mapped["QtWebEngine"] = PyStr("5.15")
    /\ Mapped["QtWebKit"] = PyFalse
    /\ sb_out = << "\nOn QtWebEngine, this setting requires 5.15 or newer.\n",
                   "\nOn QtWebKit, this setting is unavailable.\n" >>

OnlyWebKit == "\nThis setting is only available with the QtWebKit backend.\n"
OnlyWebEngine == "\nThis setting is only available with the QtWebEngine backend.\n"

\* C10 (as claimed): without a mapping, a backend list that names both
\* backends gives no text, one that names only QtWebKit (only QtWebEngine)
\* gives exactly the notice for it, and every other list raises, with no text
\* written. Stated for the lists that name no backend twice.
C10_ListNamesBackends ==
    (/\ sb_pc \in {"returned", "raised"}
     /\ IsNone(opt.raw_backends)
     /\ Cardinality(Range(opt.backends)) = Len(opt.backends))
        => CASE Range(opt.backends) = {"QtWebKit", "QtWebEngine"} ->
                    sb_pc = "returned" /\ sb_out = <<>>
             [] Range(opt.backends) = {"QtWebKit"} ->
                    sb_pc = "returned" /\ sb_out = <<OnlyWebKit>>
             [] Range(opt.backends) = {"QtWebEngine"} ->
                    sb_pc = "returned" /\ sb_out = <<OnlyWebEngine>>
             [] OTHER ->
                    sb_pc = "raised" /\ sb_exc.type = "ValueError" /\ sb_out = <<>>

\* C10 (amended): without a mapping, the list [QtWebKit, QtWebEngine] gives no
\* text, the list [QtWebKit] exactly the QtWebKit notice, the list
\* [QtWebEngine] exactly the QtWebEngine notice, and every other list (the
\* empty one, the two backends in the other order, a backend twice) raises a
\* ValueError, with no text written.
C10_ExactLists ==
    (sb_pc \in {"returned", "raised"} /\ IsNone(opt.raw_backends))
        => CASE opt.backends = <<"QtWebKit", "QtWebEngine">> ->
                    sb_pc = "returned" /\ sb_out = <<>>
             [] opt.backends = <<"QtWebKit">> ->
                    sb_pc = "returned" /\ sb_out = <<OnlyWebKit>>
             [] opt.backends = <<"QtWebEngine">> ->
                    sb_pc = "returned" /\ sb_out = <<OnlyWebEngine>>
             [] OTHER ->
                    sb_pc = "raised" /\ sb_exc.type = "ValueError" /\ sb_out = <<>>

\* C10's case: no mapping, the list [QtWebKit], and the call has returned
\* with the one notice.
C10_Witness ==
    /\ sb_pc = "returned"
    /\ IsNone(opt.raw_backends)
    /\ opt.backends = <<"QtWebKit">>
    /\ sb_out = <<OnlyWebKit>>

(***************************************************************************)
(* _get_cmd_syntax and UsageFormatter                                      *)
(***************************************************************************)
MaxActions == 2

\* str(t) of a tuple of strings, as "'{}'".format(t) renders it.
TupleRepr(t) ==
    IF Len(t) = 1 THEN "(" \o Quoted(t[1]) \o ",)"
    ELSE "(" \o JoinWith(", ", [i \in 1..Len(t) |-> Quoted(t[i])]) \o ")"

\* str(v) of a metavar: the string itself, or the tuple as Python prints it.
StrOf(v) == IF v.kind = "tuple" THEN TupleRepr(v.val) ELSE v.val

\* str.rstrip() of a string.
RECURSIVE RStripStr(_)
RStripStr(str) ==
    IF str # "" /\ SubSeq(str, Len(str), Len(str)) \in {"\n", " "}
    THEN RStripStr(SubSeq(str, 1, Len(str) - 1))
    ELSE str

KeyError(key) == [type |-> "KeyError", arg |-> key, command |-> ""]
ValueError(msg) == [type |-> "ValueError", arg |-> msg, command |-> ""]

Returned(v) == [exc |-> NoError, val |-> v]
Raised(e) == [exc |-> e, val |-> ""]

\* _get_default_metavar_for_optional / _for_positional: argparser.arg_name
\* leaves a destination without an underscore as it is.
DefaultMetavarForOptional(a) == Upper(a.dest)
DefaultMetavarForPositional(a) == a.dest

\* UsageFormatter._metavar_formatter(action, default_metavar)(tuple_size)
MetavarFormatter(a, default_metavar, tuple_size) ==
    LET result ==
            IF ~IsNone(a.metavar) THEN PyStr(Quoted(StrOf(a.metavar)))
            ELSE IF ~IsNone(a.choices)
            THEN PyStr("{" \o JoinWith(",", [i \in 1..Len(a.choices.val) |->
                                               Emphasis(a.choices.val[i])])
                           \o "}")
            ELSE PyStr(Quoted(default_metavar))
    IN  IF result.kind = "tuple" THEN result.val
        ELSE [i \in 1..tuple_size |-> result.val]

\* UsageFormatter._format_args: argparse's own _format_args, which asks
\* _metavar_formatter for the metavars and fills the format of the nargs.
FormatArgs(a, default_metavar) ==
    IF IsNone(a.nargs)
    THEN Returned(MetavarFormatter(a, default_metavar, 1)[1])
    ELSE IF EqStr(a.nargs, "?")
    THEN Returned("[" \o MetavarFormatter(a, default_metavar, 1)[1] \o "]")
    ELSE IF EqStr(a.nargs, "*")
    THEN Returned("[" \o MetavarFormatter(a, default_metavar, 1)[1] \o " ...]")
    ELSE IF EqStr(a.nargs, "+")
    THEN LET mv == MetavarFormatter(a, default_metavar, 2)
         IN  Returned(mv[1] \o " [" \o mv[2] \o " ...]")
    ELSE IF EqStr(a.nargs, "...") THEN Returned("...")
    ELSE IF a.nargs.kind = "int"
    THEN LET mv == MetavarFormatter(a, default_metavar, a.nargs.val)
         IN  IF Len(mv) = a.nargs.val THEN Returned(JoinWith(" ", mv))
             ELSE Raised(ValueError("length of metavar tuple does not match nargs"))
    ELSE Raised(ValueError("invalid nargs value"))

IsOptional(a) == a.option_strings # <<>>
IsPositional(a) == a.option_strings = <<>>

\* The part of one action in argparse's _format_actions_usage: nothing for a
\* suppressed action, the arguments of a positional, [flag] or [flag args]
\* for an optional.
ActionUsagePart(a) ==
    IF a.help = SUPPRESS THEN Returned(<<>>)
    ELSE IF IsPositional(a)
    THEN LET r == FormatArgs(a, DefaultMetavarForPositional(a))
         IN  IF r.exc = NoError THEN Returned(<<r.val>>) ELSE r
    ELSE IF EqInt(a.nargs, 0)
    THEN Returned(<<"[" \o a.option_strings[1] \o "]">>)
    ELSE LET r == FormatArgs(a, DefaultMetavarForOptional(a))
         IN  IF r.exc = NoError
             THEN Returned(<<"[" \o a.option_strings[1] \o " " \o r.val \o "]">>)
             ELSE r

RECURSIVE UsageParts(_)
UsageParts(actions) ==
    IF actions = <<>> THEN Returned(<<>>)
    ELSE LET r == ActionUsagePart(Head(actions))
         IN  IF r.exc # NoError THEN r
             ELSE LET rest == UsageParts(Tail(actions))
                  IN  IF rest.exc # NoError THEN rest
                      ELSE Returned(r.val \o rest.val)

\* super()._format_actions_usage(actions, groups) on the optionals followed
\* by the positionals, as argparse's _format_usage passes them.
SuperFormatActionsUsage(actions) ==
    LET r == UsageParts(SelectSeq(actions, IsOptional)
                            \o SelectSeq(actions, IsPositional))
    IN  IF r.exc # NoError THEN r ELSE Returned(JoinWith(" ", r.val))

\* The usage strings a parser is given.
GivenUsages == {"%(prog)s [url]", "%(command)s [url]"}

\* usage % dict(prog=self._prog) in argparse's _format_usage.
PercentFormat(u, prog) ==
    CASE u = "%(prog)s [url]" -> Returned(prog \o " [url]")
      [] u = "%(command)s [url]" -> Raised(KeyError("command"))
      [] OTHER -> Returned(u)

\* What format_usage() returns for the usage text: format_help() ends it
\* with one newline.
FormatHelp(text) == text \o "\n"

\* old_fmt_class = cmd.parser.formatter_class
\* cmd.parser.formatter_class = UsageFormatter
PatchFormatterClass ==
    /\ syn_pc = "call"
    /\ old_fmt_class' = parser.formatter_class
    /\ parser' = [parser EXCEPT !.formatter_class = "UsageFormatter"]
    /\ syn_pc' = "format_usage"
    /\ UNCHANGED <<old_option_strings, ret, usage, syn_exc, parser0>>
    /\ UNCHANGED notSyntax

\* cmd.parser.format_usage().rstrip() on a parser that was given its usage:
\* the usage is formatted with the program name, no action is looked at.
FormatGivenUsage ==
    /\ syn_pc = "format_usage"
    /\ ~IsNone(parser.usage)
    /\ LET r == PercentFormat(parser.usage.val, parser.prog)
       IN  IF r.exc = NoError
           THEN /\ usage' = RStripStr(FormatHelp(r.val))
                /\ syn_pc' = "restore"
                /\ syn_exc' = syn_exc
           ELSE /\ syn_exc' = r.exc
                /\ syn_pc' = "raised"
                /\ usage' = usage
    /\ UNCHANGED <<parser, old_fmt_class, old_option_strings, ret, parser0>>
    /\ UNCHANGED notSyntax

\* ... on a parser without usage and without actions: the program name.
FormatNoActions ==
    /\ syn_pc = "format_usage"
    /\ IsNone(parser.usage)
    /\ parser.actions = <<>>
    /\ usage' = RStripStr(FormatHelp(parser.prog))
    /\ syn_pc' = "restore"
    /\ UNCHANGED <<parser, old_fmt_class, old_option_strings, ret, syn_exc,
                   parser0>>
    /\ UNCHANGED notSyntax

\* ... on a parser without usage: UsageFormatter._format_actions_usage, the
\* loop that saves the option strings and puts them between asterisks.
PatchOptionStrings ==
    /\ syn_pc = "format_usage"
    /\ IsNone(parser.usage)
    /\ parser.actions # <<>>
    /\ old_option_strings' =
           [i \in 1..Len(parser.actions) |-> parser.actions[i].option_strings]
    /\ parser' =
           [parser EXCEPT !.actions =
               [i \in 1..Len(parser.actions) |->
                   [parser.actions[i] EXCEPT !.option_strings =
                       [j \in 1..Len(parser.actions[i].option_strings) |->
                           Emphasis(parser.actions[i].option_strings[j])]]]]
    /\ syn_pc' = "super"
    /\ UNCHANGED <<old_fmt_class, ret, usage, syn_exc, parser0>>
    /\ UNCHANGED notSyntax

\* ret = super()._format_actions_usage(actions, groups)
CallSuper ==
    /\ syn_pc = "super"
    /\ LET r == SuperFormatActionsUsage(parser.actions)
       IN  IF r.exc = NoError
           THEN ret' = r.val /\ syn_pc' = "unpatch" /\ syn_exc' = syn_exc
           ELSE ret' = ret /\ syn_pc' = "raised" /\ syn_exc' = r.exc
    /\ UNCHANGED <<parser, old_fmt_class, old_option_strings, usage, parser0>>
    /\ UNCHANGED notSyntax

\* The loop that puts the saved option strings back; return ret, of which
\* format_usage() makes the usage text, and the rstrip() of _get_cmd_syntax.
RestoreOptionStrings ==
    /\ syn_pc = "unpatch"
    /\ parser' =
           [parser EXCEPT !.actions =
               [i \in 1..Len(parser.actions) |->
                   [parser.actions[i] EXCEPT !.option_strings =
                       old_option_strings[i]]]]
    /\ usage' = RStripStr(FormatHelp(IF ret = "" THEN parser.prog
                                     ELSE parser.prog \o " " \o ret))
    /\ syn_pc' = "restore"
    /\ UNCHANGED <<old_fmt_class, old_option_strings, ret, syn_exc, parser0>>
    /\ UNCHANGED notSyntax

\* cmd.parser.formatter_class = old_fmt_class; return usage
RestoreFormatterClass ==
    /\ syn_pc = "restore"
    /\ parser' = [parser EXCEPT !.formatter_class = old_fmt_class]
    /\ syn_pc' = "returned"
    /\ UNCHANGED <<old_fmt_class, old_option_strings, ret, usage, syn_exc,
                   parser0>>
    /\ UNCHANGED notSyntax

SyntaxStart(p) ==
    /\ parser = p
    /\ parser0 = p
    /\ syn_pc = "call"
    /\ old_fmt_class = ""
    /\ old_option_strings = <<>>
    /\ ret = ""
    /\ usage = ""
    /\ syn_exc = NoError

\* The tuple metavar of an action that takes n arguments.
TupleMetavar(n) == PyTuple(SubSeq(<<"A", "B", "C", "D">>, 1, n))

\* The kinds of argument a parser holds: no metavar, choices, a string or a
\* tuple metavar, one argument, any number, exactly MaxNargs; and an nargs
\* that was set to no valid value after the argument was added.
ArgumentKinds ==
    { [nargs |-> PyNone, metavar |-> PyNone, choices |-> PyNone],
      [nargs |-> PyNone, metavar |-> PyNone,
       choices |-> PyTuple(<<"tab", "window">>)],
      [nargs |-> PyNone, metavar |-> PyStr("X"), choices |-> PyNone],
      [nargs |-> PyStr("*"), metavar |-> PyNone, choices |-> PyNone],
      [nargs |-> PyInt(MaxNargs), metavar |-> PyNone, choices |-> PyNone],
      [nargs |-> PyInt(MaxNargs), metavar |-> PyStr("X"), choices |-> PyNone],
      [nargs |-> PyInt(MaxNargs), metavar |-> TupleMetavar(MaxNargs),
       choices |-> PyNone],
      [nargs |-> PyStr("x"), metavar |-> PyNone, choices |-> PyNone] }

\* The actions of a command's parser: positionals and options of every kind,
\* and a flag.
SyntaxActions ==
    { [option_strings |-> os, dest |-> "target", metavar |-> k.metavar,
       choices |-> k.choices, nargs |-> k.nargs, help |-> "the help"] :
          os \in { <<>>, <<"-t", "--target">> }, k \in ArgumentKinds }
        \cup { [option_strings |-> <<"-t", "--target">>, dest |-> "target",
                metavar |-> PyNone, choices |-> PyNone, nargs |-> PyInt(0),
                help |-> "the help"] }

Parsers(actionLists) ==
    [ prog : {"open"},
      usage : {PyNone} \cup { PyStr(u) : u \in GivenUsages },
      formatter_class : {"HelpFormatter", "RawTextHelpFormatter"},
      actions : actionLists ]

SyntaxInit ==
    \E p \in Parsers(UNION { [1..n -> SyntaxActions] : n \in 0..MaxActions }) :
        SyntaxStart(p)

SyntaxIdle ==
    SyntaxStart([prog |-> "open", usage |-> PyNone,
                 formatter_class |-> "HelpFormatter", actions |-> <<>>])

SyntaxNext ==
    \/ PatchFormatterClass
    \/ FormatGivenUsage
    \/ FormatNoActions
    \/ PatchOptionStrings
    \/ CallSuper
    \/ RestoreOptionStrings
    \/ RestoreFormatterClass

\* C13 (as claimed): when _get_cmd_syntax finishes, whether it returns or
\* raises, the parser's formatter_class and the option_strings of every
\* action of the parser are what they were before the call.
C13_ParserRestored ==
    syn_pc \in {"returned", "raised"}
        => /\ parser.formatter_class = parser0.formatter_class
           /\ \A i \in 1..Len(parser0.actions) :
                 parser.actions[i].option_strings
                     = parser0.actions[i].option_strings

\* An action with an explicit metavar and an arity of a fixed number of
\* arguments: a string, or a tuple with one element for each argument.
ExplicitMetavar(a) ==
    /\ a.nargs.kind = "int"
    /\ a.nargs.val >= 1
    /\ \/ a.metavar.kind = "str"
       \/ a.metavar.kind = "tuple" /\ Len(a.metavar.val) = a.nargs.val

\* The arguments displayed for it: the i-th element of a tuple metavar is the
\* i-th argument, a single metavar is repeated, each in quotes of its own.
ByPosition(a) ==
    JoinWith(" ", [i \in 1..a.nargs.val |->
                      Quoted(IF a.metavar.kind = "tuple" THEN a.metavar.val[i]
                             ELSE a.metavar.val)])

\* C14 (as claimed): in the usage string of UsageFormatter and in the option
\* rendering of _get_action_metavar alike, the arguments of an action with a
\* tuple metavar are its elements in order, each quoted on its own, and the
\* arguments of an action with a single metavar are as many copies of it as
\* the arity requires.
C14_MetavarsByPosition ==
    /\ (syn_pc = "returned" /\ IsNone(parser0.usage))
          => \A i \in 1..Len(parser0.actions) :
                ExplicitMetavar(parser0.actions[i])
                    => Contains(usage, ByPosition(parser0.actions[i]))
    /\ (fa_pc = "returned" /\ TakesValue(action) /\ ExplicitMetavar(action))
          => args_string = ByPosition(action)

\* The two renderers on one action of a parser.
MetavarInit ==
    \E a \in SyntaxActions :
        /\ \E p \in Parsers({ <<a>> }) : SyntaxStart(p)
        /\ ActionStart(a)

(***************************************************************************)
(* The specifications.                                                     *)
(***************************************************************************)
\* One call of _format_block.
Init ==
    PatchInit /\ CmdsIdle /\ DocIdle /\ ActionIdle /\ SettingIdle /\ SyntaxIdle
Next == PatchNext
Spec == Init /\ [][Next]_vars

\* Two calls in a row on the same file and block.
NextTwice == PatchNext \/ CallAgain
SpecTwice == Init /\ [][NextTwice]_vars

\* _get_command_doc on one command.
InitDoc ==
    DocInit /\ PatchIdle /\ CmdsIdle /\ ActionIdle /\ SettingIdle /\ SyntaxIdle
NextDoc == GetCommandDoc
SpecDoc == InitDoc /\ [][NextDoc]_vars

\* generate_commands on one registry.
InitCommands ==
    CmdsInit /\ PatchIdle /\ DocIdle /\ ActionIdle /\ SettingIdle /\ SyntaxIdle
NextCommands == CmdsNext
SpecCommands == InitCommands /\ [][NextCommands]_vars

\* _format_action on one action of the parser.
InitAction ==
    ActionInit /\ PatchIdle /\ CmdsIdle /\ DocIdle /\ SettingIdle /\ SyntaxIdle
NextAction == FormatAction
SpecAction == InitAction /\ [][NextAction]_vars

\* _generate_setting_backend_info on one option.
InitSetting ==
    SettingInit /\ PatchIdle /\ CmdsIdle /\ DocIdle /\ ActionIdle /\ SyntaxIdle
NextSetting == SettingNext
SpecSetting == InitSetting /\ [][NextSetting]_vars

\* _get_cmd_syntax on the parser of one command.
InitSyntax ==
    SyntaxInit /\ PatchIdle /\ CmdsIdle /\ DocIdle /\ ActionIdle /\ SettingIdle
NextSyntax == SyntaxNext
SpecSyntax == InitSyntax /\ [][NextSyntax]_vars

\* The usage string and the option rendering of one action.
InitMetavar == MetavarInit /\ PatchIdle /\ CmdsIdle /\ DocIdle /\ SettingIdle
NextMetavar ==
    \/ FormatAction
    \/ PatchFormatterClass
    \/ FormatGivenUsage
    \/ PatchOptionStrings
    \/ CallSuper
    \/ RestoreOptionStrings
    \/ RestoreFormatterClass
SpecMetavar == InitMetavar /\ [][NextMetavar]_vars
====
